---- MODULE Spec2Model ----
(***************************************************************************)
(* The CRM GraphQL schema of crm/schema.py as a state machine: the entity  *)
(* store (customers, products, orders, order items) and the mutations      *)
(* createCustomer, bulkCreateCustomers, createProduct, createOrder and     *)
(* updateLowStockProducts.                                                 *)
(*                                                                         *)
(* Strings that the code matches against regular expressions are modelled  *)
(* as sequences of one-character strings.  Decimal prices are modelled as  *)
(* integer numbers of cents (Decimal arithmetic is exact).  Rows get their *)
(* id from their position in the table (auto-increment, nothing deletes).  *)
(***************************************************************************)
EXTENDS Integers, Sequences, FiniteSets, TLC

VARIABLES
    customers,   \* Customer table: sequence of [name, email, phone]
    products,    \* Product table: sequence of [name, price, stock]
    orders,      \* Order table: sequence of [customer, total_amount]
    items,       \* order-item rows: set of [order, product]
    request,     \* the last mutation call: [op, input]
    response,    \* what that call returned
    pc,          \* per concurrent invocation: where updateLowStockProducts is
    low_stock_products, \* per invocation: the rows its queryset fetched, left to save
    count,       \* per invocation: the result of low_stock_products.count()
    created_stock, \* history: the stock each product row was created with
    saved        \* history: per invocation, the ids of the rows it saved

vars == <<customers, products, orders, items, request, response,
          pc, low_stock_products, count, created_stock, saved>>

-----------------------------------------------------------------------------
(* Bounds of the model *)

\* longest input list given to bulkCreateCustomers
MaxBatch == 2
\* most rows of the Product table
MaxProducts == 2
\* most rows of the Order table
MaxOrders == 1

-----------------------------------------------------------------------------
(* Character classes of the regular expressions *)

Digits == {"0", "1", "2", "3", "4", "5", "6", "7", "8", "9"}

Letters ==
    {"a", "b", "c", "d", "e", "f", "g", "h", "i", "j", "k", "l", "m",
     "n", "o", "p", "q", "r", "s", "t", "u", "v", "w", "x", "y", "z",
     "A", "B", "C", "D", "E", "F", "G", "H", "I", "J", "K", "L", "M",
     "N", "O", "P", "Q", "R", "S", "T", "U", "V", "W", "X", "Y", "Z"}

\* [a-zA-Z0-9._%+-]
LocalChars == Letters \cup Digits \cup {".", "_", "%", "+", "-"}

\* [a-zA-Z0-9.-]
DomainChars == Letters \cup Digits \cup {".", "-"}

\* The lengths at which Python's "$" matches: the end of the string, and just
\* before a newline that ends the string.
DollarEnds(s) ==
    {Len(s)} \cup (IF Len(s) > 0 /\ s[Len(s)] = "\n" THEN {Len(s) - 1} ELSE {})

AllIn(s, from, to, class) == \A k \in from..to : s[k] \in class

\* re.match(r'^[a-zA-Z0-9._%+-]+@[a-zA-Z0-9.-]+\.[a-zA-Z]{2,}$', email)
EmailMatches(email) ==
    \E n \in DollarEnds(email) :
        \E at \in 2..n :
            \E dot \in (at + 2)..(n - 2) :
                /\ email[at] = "@"
                /\ email[dot] = "."
                /\ AllIn(email, 1, at - 1, LocalChars)
                /\ AllIn(email, at + 1, dot - 1, DomainChars)
                /\ AllIn(email, dot + 1, n, Letters)

\* re.match(r'^(\+\d{10,15}|\d{3}-\d{3}-\d{4})$', phone)
PhoneMatches(phone) ==
    \E n \in DollarEnds(phone) :
        \/ /\ n \in 11..16
           /\ phone[1] = "+"
           /\ AllIn(phone, 2, n, Digits)
        \/ /\ n = 12
           /\ AllIn(phone, 1, 3, Digits)
           /\ phone[4] = "-"
           /\ AllIn(phone, 5, 7, Digits)
           /\ phone[8] = "-"
           /\ AllIn(phone, 9, 12, Digits)

-----------------------------------------------------------------------------
(* Messages.  A message is a template with the values formatted into it.   *)

Message(template) == [template |-> template, email |-> <<>>, ids |-> <<>>]

NoError == Message("")

EmailFormatError == Message("Please enter a valid email address.")
EmailExistsError == Message("A customer with this email already exists.")
PhoneFormatError ==
    Message("Phone number must be in format: +1234567890 or 123-456-7890")
PriceError == Message("Price must be a positive number.")
StockError == Message("Stock cannot be negative")
\* Model.full_clean()'s unique check on Customer.email
UniqueEmailError == Message("{'email': ['Customer with this Email already exists.']}")

\* The lower-cased words and phrases of str(e) that the handlers look for.
Phrases(err) ==
    CASE err = EmailFormatError -> {"email"}
      [] err = EmailExistsError -> {"email", "already exists"}
      [] err = UniqueEmailError -> {"email", "already exists"}
      [] err = PhoneFormatError -> {"phone"}
      [] err = PriceError -> {"price"}
      [] err = StockError -> {"stock"}
      [] OTHER -> {}

\* 'word' in str(e).lower()
Mentions(err, word) == word \in Phrases(err)

-----------------------------------------------------------------------------
(* Validations *)

EmailExists(store, email) == \E i \in 1..Len(store) : store[i].email = email

validate_email(store, email) ==
    IF ~EmailMatches(email) THEN EmailFormatError
    ELSE IF EmailExists(store, email) THEN EmailExistsError
    ELSE NoError

validate_phone(phone) ==
    IF Len(phone) > 0 /\ ~PhoneMatches(phone) THEN PhoneFormatError
    ELSE NoError

\* A check that lets a price of zero through.
validate_price_negative_only(price) == IF price < 0 THEN PriceError ELSE NoError

validate_price(price) == IF price <= 0 THEN PriceError ELSE NoError

validate_stock(stock) == IF stock < 0 THEN StockError ELSE NoError

\* Customer.full_clean(): the model's field rules (unique email).
full_clean_customer(store, c) ==
    IF EmailExists(store, c.email) THEN UniqueEmailError ELSE NoError

\* A mutation's validation calls in the wrong order.
ValidateCustomerPhoneFirst(store, input) ==
    LET e == validate_phone(input.phone)
    IN  IF e # NoError THEN e ELSE validate_email(store, input.email)

\* The two validation calls of createCustomer and of a bulk item, in order:
\* the first that raises decides the error.
ValidateCustomer(store, input) ==
    LET e == validate_email(store, input.email)
    IN  IF e # NoError THEN e ELSE validate_phone(input.phone)

\* A customer built without the phone that was given.
NewCustomerWithoutPhone(input) ==
    [name |-> input.name, email |-> input.email, phone |-> <<>>]

NewCustomer(input) ==
    [name |-> input.name, email |-> input.email, phone |-> input.phone]

\* The try block of createCustomer and of a bulk item up to save(): the
\* error raised, or NoError when the customer is saved.
CustomerError(store, input) ==
    LET e == ValidateCustomer(store, input)
    IN  IF e # NoError THEN e ELSE full_clean_customer(store, NewCustomer(input))

-----------------------------------------------------------------------------
(* createCustomer *)

DuplicateEmailMessage == Message("A customer with this email already exists.")
InvalidPhoneMessage == Message("Invalid phone format")

CreateCustomerMessage(err) ==
    IF Mentions(err, "email") THEN DuplicateEmailMessage
    ELSE IF Mentions(err, "phone") THEN InvalidPhoneMessage
    ELSE err

CreateCustomerResponse(store, input) ==
    LET err == CustomerError(store, input)
    IN  IF err = NoError
        THEN [customer |-> Len(store) + 1,
              message |-> Message("Customer created successfully!"),
              success |-> TRUE]
        ELSE [customer |-> 0,
              message |-> CreateCustomerMessage(err),
              success |-> FALSE]

CustomerStoreAfter(store, input) ==
    IF CustomerError(store, input) = NoError
    THEN Append(store, NewCustomer(input))
    ELSE store

-----------------------------------------------------------------------------
(* bulkCreateCustomers *)

BulkDuplicateMessage(email) ==
    [template |-> "Email '{}' already exists", email |-> email, ids |-> <<>>]

BulkMessage(err, input) ==
    IF Mentions(err, "email") /\ Mentions(err, "already exists")
    THEN BulkDuplicateMessage(input.email)
    ELSE IF Mentions(err, "phone") THEN InvalidPhoneMessage
    ELSE err

ErrorType(message, index) ==
    [field |-> "customer_data", message |-> message, index |-> index]

\* The loop over enumerate(input): index counts from 0; out holds the store
\* and the two result lists so far.
RECURSIVE BulkLoop(_, _, _)
BulkLoop(input, index, out) ==
    IF index = Len(input) THEN out
    ELSE LET input_data == input[index + 1]
             err == CustomerError(out.store, input_data)
         IN  IF err = NoError
             THEN BulkLoop(input, index + 1,
                    [out EXCEPT !.store = Append(@, NewCustomer(input_data)),
                                !.customers = Append(@, NewCustomer(input_data))])
             ELSE BulkLoop(input, index + 1,
                    [out EXCEPT !.errors =
                        Append(@, ErrorType(BulkMessage(err, input_data), index))])

\* A loop that stops at the first item that fails.
RECURSIVE BulkLoopAbort(_, _, _)
BulkLoopAbort(input, index, out) ==
    IF index = Len(input) THEN out
    ELSE LET input_data == input[index + 1]
             err == CustomerError(out.store, input_data)
         IN  IF err = NoError
             THEN BulkLoopAbort(input, index + 1,
                    [out EXCEPT !.store = Append(@, NewCustomer(input_data)),
                                !.customers = Append(@, NewCustomer(input_data))])
             ELSE [out EXCEPT !.errors =
                        Append(@, ErrorType(BulkMessage(err, input_data), index))]

BulkAbortOnError(store, input) ==
    BulkLoopAbort(input, 0, [store |-> store, customers |-> <<>>, errors |-> <<>>])

\* A loop that validates every item against the store as it was before the
\* batch, and saves afterwards.
RECURSIVE BulkLoopStale(_, _, _, _)
BulkLoopStale(before, input, index, out) ==
    IF index = Len(input) THEN out
    ELSE LET input_data == input[index + 1]
             err == CustomerError(before, input_data)
         IN  IF err = NoError
             THEN BulkLoopStale(before, input, index + 1,
                    [out EXCEPT !.store = Append(@, NewCustomer(input_data)),
                                !.customers = Append(@, NewCustomer(input_data))])
             ELSE BulkLoopStale(before, input, index + 1,
                    [out EXCEPT !.errors =
                        Append(@, ErrorType(BulkMessage(err, input_data), index))])

BulkValidateThenSave(store, input) ==
    BulkLoopStale(store, input, 0,
                  [store |-> store, customers |-> <<>>, errors |-> <<>>])

\* BulkCreateCustomers.mutate: [store, customers, errors]
BulkCreateCustomersRun(store, input) ==
    BulkLoop(input, 0, [store |-> store, customers |-> <<>>, errors |-> <<>>])

-----------------------------------------------------------------------------------------------------------------------------------------------------
(* createProduct *)

\* Product.full_clean(): no field rule beyond those of validate_price and
\* validate_stock is given for Product.
full_clean_product(p) == NoError

\* input.stock or 0
StockOrZero(stock) == IF stock = 0 THEN 0 ELSE stock

NewProduct(input) ==
    [name |-> input.name, price |-> input.price, stock |-> StockOrZero(input.stock)]

\* The try block of createProduct up to save(): the error raised, or NoError.
ProductError(input) ==
    LET e1 == validate_price(input.price)
        e2 == validate_stock(input.stock)
    IN  IF e1 # NoError THEN e1
        ELSE IF e2 # NoError THEN e2
        ELSE full_clean_product(NewProduct(input))

CreateProductMessage(err) ==
    IF Mentions(err, "price") THEN Message("Price must be a positive number")
    ELSE IF Mentions(err, "stock") THEN Message("Stock cannot be negative")
    ELSE err

CreateProductResponse(store, input) ==
    LET err == ProductError(input)
    IN  IF err = NoError
        THEN [product |-> Len(store) + 1,
              message |-> Message("Product created successfully!"),
              success |-> TRUE]
        ELSE [product |-> 0,
              message |-> CreateProductMessage(err),
              success |-> FALSE]

ProductStoreAfter(store, input) ==
    IF ProductError(input) = NoError
    THEN Append(store, NewProduct(input))
    ELSE store

-----------------------------------------------------------------------------
(* createOrder *)

\* A sum that counts a product listed twice only once.
SumPricesOfDistinct(ps) ==
    LET RECURSIVE SumSet(_)
        SumSet(S) == IF S = {} THEN 0
                     ELSE LET x == CHOOSE x \in S : TRUE
                          IN  x.price + SumSet(S \ {x})
    IN  SumSet({ps[k] : k \in 1..Len(ps)})

RECURSIVE SumPrices(_)
\* sum(product.price for product in products)
SumPrices(ps) ==
    IF ps = <<>> THEN 0 ELSE Head(ps).price + SumPrices(Tail(ps))

CustomerNotFound == Message("Customer not found")
NoProductsSpecified == Message("At least one product is required")
InvalidProductIds(ids) ==
    [template |-> "Invalid product IDs: {}", email |-> <<>>, ids |-> ids]

OrderFailure(message) == [order |-> 0, message |-> message, success |-> FALSE]

\* A mutation without the check for an empty product list.
CreateOrderRunUnchecked(custs, prods, ords, input) ==
    IF input.customer_id \notin 1..Len(custs)
    THEN [orders |-> ords, response |-> OrderFailure(CustomerNotFound)]
    ELSE LET found == SelectSeq(input.product_ids,
                                LAMBDA id : id \in 1..Len(prods))
             invalid_product_ids == SelectSeq(input.product_ids,
                                LAMBDA id : id \notin 1..Len(prods))
             fetched == [k \in 1..Len(found) |-> prods[found[k]]]
         IN  IF invalid_product_ids # <<>>
             THEN [orders |-> ords,
                   response |-> OrderFailure(InvalidProductIds(invalid_product_ids))]
             ELSE [orders |-> Append(ords, [customer |-> input.customer_id,
                                            total_amount |-> SumPrices(fetched)]),
                   response |-> [order |-> Len(ords) + 1,
                                 message |-> Message("Order created successfully!"),
                                 success |-> TRUE]]

\* CreateOrder.mutate: [orders, response] from the three tables and the input
CreateOrderRun(custs, prods, ords, input) ==
    IF input.customer_id \notin 1..Len(custs)
    THEN [orders |-> ords, response |-> OrderFailure(CustomerNotFound)]
    ELSE IF input.product_ids = <<>>
    THEN [orders |-> ords, response |-> OrderFailure(NoProductsSpecified)]
    ELSE LET found == SelectSeq(input.product_ids,
                                LAMBDA id : id \in 1..Len(prods))
             invalid_product_ids == SelectSeq(input.product_ids,
                                LAMBDA id : id \notin 1..Len(prods))
             fetched == [k \in 1..Len(found) |-> prods[found[k]]]
             total_amount == SumPrices(fetched)
         IN  IF invalid_product_ids # <<>>
             THEN [orders |-> ords,
                   response |-> OrderFailure(InvalidProductIds(invalid_product_ids))]
             ELSE [orders |-> Append(ords, [customer |-> input.customer_id,
                                            total_amount |-> total_amount]),
                   response |-> [order |-> Len(ords) + 1,
                                 message |-> Message("Order created successfully!"),
                                 success |-> TRUE]]

\* Query.resolve_available_products: the ids of the rows with stock > 0
resolve_available_products(prods) == {i \in 1..Len(prods) : prods[i].stock > 0}

\* OrderType.resolve_products: the products of the order's items
resolve_products(order) == {it.product : it \in {x \in items : x.order = order}}

-----------------------------------------------------------------------------
(* updateLowStockProducts *)

\* the low-stock threshold of the filter
LowStockThreshold == 10
\* the amount added to the stock of a selected product
Replenishment == 10

IsLowStock(p) == p.stock < LowStockThreshold

RECURSIVE Fetch(_, _)
\* Product.objects.filter(stock__lt=10), evaluated: the selected rows as
\* they are read, each with its id
Fetch(prods, n) ==
    IF n = 0 THEN <<>>
    ELSE IF IsLowStock(prods[n])
         THEN Append(Fetch(prods, n - 1), [id |-> n, row |-> prods[n]])
         ELSE Fetch(prods, n - 1)

\* low_stock_products.count()
CountLowStock(prods) == Cardinality({i \in 1..Len(prods) : IsLowStock(prods[i])})

\* An increment done by the database on the row's current value.
SaveOnCurrentValue(prods, fetched) ==
    [prods EXCEPT ![fetched.id] = [@ EXCEPT !.stock = @ + Replenishment]]

\* An increment of twice the amount.
SaveDoubleAmount(prods, fetched) ==
    [prods EXCEPT ![fetched.id] =
        [fetched.row EXCEPT !.stock = @ + 2 * Replenishment]]

\* product.stock += 10; product.save(): the instance as it was read, with its
\* stock increased, overwrites the row
SaveReplenished(prods, fetched) ==
    [prods EXCEPT ![fetched.id] = [fetched.row EXCEPT !.stock = @ + Replenishment]]

RECURSIVE SaveAll(_, _)
\* the for loop over the fetched rows
SaveAll(prods, fetched) ==
    IF fetched = <<>> THEN prods
    ELSE SaveAll(SaveReplenished(prods, Head(fetched)), Tail(fetched))

\* the fields the mutation class declares
UpdateLowStockFields == {"updated_count", "message", "success"}
\* the keyword arguments of the result built after the loop
ResultKeywords == {"updated_product_list", "updated_count", "message", "success"}

UpdatedMessage(n) ==
    [template |-> "Updated {} low stock products.", email |-> <<>>, ids |-> <<n>>]

\* The return of the try block: an object type built with a keyword that is
\* not one of its fields raises TypeError, which the except clause turns into
\* the failure result.
UpdateLowStockResponse(n) ==
    IF ResultKeywords \subseteq UpdateLowStockFields
    THEN [updated_count |-> n, message |-> UpdatedMessage(n), success |-> TRUE]
    ELSE [updated_count |-> 0,
          message |-> Message("An error occurred: {}"),
          success |-> FALSE]

-----------------------------------------------------------------------------
(* The products query *)

\* An optional argument is <<>> when it is not given and <<v>> when it is.
\* "if filters.stock_gte:" holds for a given value other than 0.
IntIsTruthy(opt) == opt # <<>> /\ opt[1] # 0

\* "if filters.low_stock is not None: if filters.low_stock:"
FlagIsSet(opt) == opt # <<>> /\ opt[1]

\* Query.resolve_products: the ids of the rows the filtered queryset holds.
\* The keys put into filter_args are combined by filter(**filter_args); the
\* name and price filters are not given in the calls modelled, and order_by
\* does not change which rows are returned.
QueryProducts(prods, filters) ==
    {i \in 1..Len(prods) :
        /\ IntIsTruthy(filters.stock_gte) => prods[i].stock >= filters.stock_gte[1]
        /\ IntIsTruthy(filters.stock_lte) => prods[i].stock <= filters.stock_lte[1]
        /\ FlagIsSet(filters.low_stock) => prods[i].stock < LowStockThreshold}

-----------------------------------------------------------------------------
(* Inputs *)

EmailLower == <<"a", "@", "b", ".", "c", "o">>
EmailUpper == <<"A", "@", "b", ".", "c", "o">>
EmailNoTld == <<"a", "@", "b">>

NoPhone == <<>>
PhonePlus == <<"+", "1", "2", "3", "4", "5", "6", "7", "8", "9", "0">>
PhoneDashed == <<"1", "2", "3", "-", "4", "5", "6", "-", "7", "8", "9", "0">>
PhoneShort == <<"1", "2", "3", "4", "5">>

CustomerInput(email, phone) == [name |-> "Ann", email |-> email, phone |-> phone]

CustomerInputs ==
    {CustomerInput(EmailLower, NoPhone),
     CustomerInput(EmailUpper, PhonePlus),
     CustomerInput(EmailLower, PhoneDashed),
     CustomerInput(EmailNoTld, NoPhone),
     CustomerInput(EmailUpper, PhoneShort),
     CustomerInput(EmailNoTld, PhoneShort)}

RECURSIVE SeqsUpTo(_, _)
SeqsUpTo(S, n) ==
    IF n = 0 THEN {<<>>}
    ELSE LET shorter == SeqsUpTo(S, n - 1)
         IN  shorter \cup {Append(s, x) : s \in shorter, x \in S}

BulkInputs == SeqsUpTo(CustomerInputs, MaxBatch)

ProductInput(price, stock) == [name |-> "Pen", price |-> price, stock |-> stock]

\* prices in cents: 10.00 and 15.50, and prices and stocks that are refused
ProductInputs ==
    {ProductInput(1000, 9),
     ProductInput(1550, 10),
     ProductInput(1000, 0),
     ProductInput(0, 9),
     ProductInput(-1, 10),
     ProductInput(1550, -1)}

\* ids of rows that may exist, and one past them
CustomerIds == 1..2
ProductIds == 1..(MaxProducts + 1)
ProductIdLists ==
    {<<>>} \cup {<<i>> : i \in ProductIds}
           \cup {<<i, j>> : i \in ProductIds, j \in {1, MaxProducts + 1}}
OrderInputs == [customer_id : CustomerIds, product_ids : ProductIdLists]

ProductFilterInputs ==
    [stock_gte : {<<>>, <<0>>, <<10>>},
     stock_lte : {<<>>, <<0>>, <<9>>},
     low_stock : {<<>>, <<TRUE>>, <<FALSE>>}]

Invocations == {"A", "B"}

-----------------------------------------------------------------------------
(* The state machine *)

NoCall == [op |-> "none"]

Init ==
    /\ customers = <<>>
    /\ products = <<>>
    /\ orders = <<>>
    /\ items = {}
    /\ request = NoCall
    /\ response = NoCall
    /\ pc = [p \in Invocations |-> "idle"]
    /\ low_stock_products = [p \in Invocations |-> <<>>]
    /\ count = [p \in Invocations |-> 0]
    /\ created_stock = <<>>
    /\ saved = [p \in Invocations |-> {}]

invocationVars == <<pc, low_stock_products, count, saved>>

CreateCustomer ==
    \E input \in CustomerInputs :
        /\ customers' = CustomerStoreAfter(customers, input)
        /\ request' = [op |-> "createCustomer", input |-> input]
        /\ response' = CreateCustomerResponse(customers, input)
        /\ UNCHANGED <<products, orders, items, created_stock, invocationVars>>

BulkCreateCustomers ==
    \E input \in BulkInputs :
        LET out == BulkCreateCustomersRun(customers, input)
        IN  /\ customers' = out.store
            /\ request' = [op |-> "bulkCreateCustomers", input |-> input]
            /\ response' = [customers |-> out.customers, errors |-> out.errors]
            /\ UNCHANGED <<products, orders, items, created_stock, invocationVars>>

CreateProduct ==
    \E input \in ProductInputs :
        /\ Len(ProductStoreAfter(products, input)) <= MaxProducts
        /\ products' = ProductStoreAfter(products, input)
        /\ created_stock' = IF Len(products') > Len(products)
                            THEN Append(created_stock, products'[Len(products')].stock)
                            ELSE created_stock
        /\ request' = [op |-> "createProduct", input |-> input]
        /\ response' = CreateProductResponse(products, input)
        /\ UNCHANGED <<customers, orders, items, invocationVars>>

RECURSIVE TakeStock(_, _)
TakeStock(prods, ids) ==
    IF ids = <<>> THEN prods
    ELSE TakeStock([prods EXCEPT ![Head(ids)].stock = @ - 1], Tail(ids))

\* A createOrder that takes one unit of stock for each product ordered.
CreateOrderTakingStock ==
    \E input \in OrderInputs :
        LET out == CreateOrderRun(customers, products, orders, input)
        IN  /\ Len(out.orders) <= MaxOrders
            /\ orders' = out.orders
            /\ products' = IF out.response.success
                           THEN TakeStock(products, input.product_ids)
                           ELSE products
            /\ request' = [op |-> "createOrder", input |-> input]
            /\ response' = out.response
            /\ UNCHANGED <<customers, items, created_stock, invocationVars>>

CreateOrder ==
    \E input \in OrderInputs :
        LET out == CreateOrderRun(customers, products, orders, input)
        IN  /\ Len(out.orders) <= MaxOrders
            /\ orders' = out.orders
            /\ request' = [op |-> "createOrder", input |-> input]
            /\ response' = out.response
            /\ UNCHANGED <<customers, products, items, created_stock, invocationVars>>

\* One call of updateLowStockProducts with nothing running beside it.
UpdateLowStockProducts ==
    /\ \A p \in Invocations : pc[p] = "idle"
    /\ products' = SaveAll(products, Fetch(products, Len(products)))
    /\ request' = [op |-> "updateLowStockProducts"]
    /\ response' = UpdateLowStockResponse(CountLowStock(products))
    /\ UNCHANGED <<customers, orders, items, created_stock, invocationVars>>

\* The products query with a filter: it reads the table and writes nothing.
ProductsQuery ==
    \E filters \in ProductFilterInputs :
        /\ request' = [op |-> "products", filters |-> filters]
        /\ response' = [products |-> QueryProducts(products, filters)]
        /\ UNCHANGED <<customers, products, orders, items, created_stock,
                       invocationVars>>

\* The steps of one of several invocations that run side by side: each
\* query and each save is a step of its own.

\* count = low_stock_products.count()
CountStep ==
    \E p \in Invocations :
        /\ pc[p] = "idle"
        /\ count' = [count EXCEPT ![p] = CountLowStock(products)]
        /\ saved' = [saved EXCEPT ![p] = {}]
        /\ pc' = [pc EXCEPT ![p] = "counted"]
        /\ UNCHANGED <<customers, products, orders, items, request, response,
                       low_stock_products, created_stock>>

\* for product in low_stock_products: the queryset is evaluated
FetchStep ==
    \E p \in Invocations :
        /\ pc[p] = "counted"
        /\ low_stock_products' =
              [low_stock_products EXCEPT ![p] = Fetch(products, Len(products))]
        /\ pc' = [pc EXCEPT ![p] = "saving"]
        /\ UNCHANGED <<customers, products, orders, items, request, response,
                       count, created_stock, saved>>

\* one pass of the loop body
SaveStep ==
    \E p \in Invocations :
        /\ pc[p] = "saving"
        /\ low_stock_products[p] # <<>>
        /\ products' = SaveReplenished(products, Head(low_stock_products[p]))
        /\ saved' = [saved EXCEPT ![p] = @ \cup {Head(low_stock_products[p]).id}]
        /\ low_stock_products' = [low_stock_products EXCEPT ![p] = Tail(@)]
        /\ UNCHANGED <<customers, orders, items, request, response, pc, count,
                       created_stock>>

\* the loop is over: the result is returned
ReturnStep ==
    \E p \in Invocations :
        /\ pc[p] = "saving"
        /\ low_stock_products[p] = <<>>
        /\ request' = [op |-> "updateLowStockProducts"]
        /\ response' = UpdateLowStockResponse(count[p])
        /\ pc' = [pc EXCEPT ![p] = "idle"]
        /\ UNCHANGED <<customers, products, orders, items, low_stock_products,
                       count, created_stock, saved>>

CustomerNext == CreateCustomer \/ BulkCreateCustomers

CustomerSpec == Init /\ [][CustomerNext]_vars

\* The store with no customer yet, or with one that createCustomer made.
StoreInit ==
    /\ customers \in {<<>>, CustomerStoreAfter(<<>>, CustomerInput(EmailLower, NoPhone))}
    /\ products = <<>>
    /\ orders = <<>>
    /\ items = {}
    /\ request = NoCall
    /\ response = NoCall
    /\ pc = [p \in Invocations |-> "idle"]
    /\ low_stock_products = [p \in Invocations |-> <<>>]
    /\ count = [p \in Invocations |-> 0]
    /\ created_stock = <<>>
    /\ saved = [p \in Invocations |-> {}]

StoreNext ==
    \/ CreateProduct
    \/ CreateOrder
    \/ UpdateLowStockProducts

StoreSpec == StoreInit /\ [][StoreNext]_vars

\* Every mutation and the products query, one call at a time.
Next ==
    \/ CreateCustomer
    \/ BulkCreateCustomers
    \/ CreateProduct
    \/ CreateOrder
    \/ UpdateLowStockProducts
    \/ ProductsQuery

\* The products query over the tables the product mutations build.
QueryNext ==
    \/ CreateProduct
    \/ UpdateLowStockProducts
    \/ ProductsQuery

QuerySpec == Init /\ [][QueryNext]_vars

Spec == Init /\ [][Next]_vars

ConcurrentNext ==
    \/ CreateProduct
    \/ CountStep
    \/ FetchStep
    \/ SaveStep
    \/ ReturnStep

ConcurrentSpec == Init /\ [][ConcurrentNext]_vars

-----------------------------------------------------------------------------
(* Properties of the customer mutations, under CustomerSpec *)

WellFormedEmails == {EmailLower, EmailUpper}
AcceptedPhones == {NoPhone, PhonePlus, PhoneDashed}
FormatOk(item) == item.email \in WellFormedEmails /\ item.phone \in AcceptedPhones

StoredEmails(store) == {store[i].email : i \in 1..Len(store)}

\* Item number i (from 0) of a batch fails validation: its email or phone is
\* malformed, or its email is taken, by a stored customer or by an earlier
\* well-formed item of the batch.
ItemFails(store, input, i) ==
    \/ ~FormatOk(input[i + 1])
    \/ input[i + 1].email \in StoredEmails(store)
    \/ \E j \in 0..(i - 1) :
          input[j + 1].email = input[i + 1].email /\ FormatOk(input[j + 1])

ErrorIndexes(errors) == {errors[e].index : e \in 1..Len(errors)}

KeepsRows(before, after) ==
    /\ Len(after) >= Len(before)
    /\ SubSeq(after, 1, Len(before)) = before

\* C1: bulkCreateCustomers with N inputs of which k fail validation adds
\* exactly N-k customer rows, returns N-k customers and k errors, and the
\* errors' indexes are exactly the 0-based positions of the failing inputs;
\* items after a failing one are still processed.
C1_BulkPartialSuccess ==
    [][request'.op = "bulkCreateCustomers" =>
        LET input == request'.input
            N == Len(input)
            failing == {i \in 0..(N - 1) : ItemFails(customers, input, i)}
            k == Cardinality(failing)
        IN  /\ KeepsRows(customers, customers')
            /\ Len(customers') = Len(customers) + N - k
            /\ Len(response'.customers) = N - k
            /\ Len(response'.errors) = k
            /\ ErrorIndexes(response'.errors) = failing
            /\ \A i \in 0..(N - 1) :
                  i \notin failing =>
                      \E r \in (Len(customers) + 1)..Len(customers') :
                          customers'[r].email = input[i + 1].email]_vars

\* A batch of two whose first item failed and whose second was created.
C1_Witness ==
    /\ request.op = "bulkCreateCustomers"
    /\ Len(request.input) = 2
    /\ ErrorIndexes(response.errors) = {0}
    /\ Len(response.customers) = 1
    /\ response.customers[1].email = request.input[2].email

\* C2: an input whose email a stored customer already has is rejected with
\* the duplicate-email message, by createCustomer and for each such item of
\* bulkCreateCustomers, and no row is added for it.
C2_DuplicateEmailRejected ==
    [][/\ (request'.op = "createCustomer"
             /\ request'.input.email \in StoredEmails(customers))
          => /\ response'.success = FALSE
             /\ response'.message = DuplicateEmailMessage
             /\ customers' = customers
       /\ request'.op = "bulkCreateCustomers"
          => /\ KeepsRows(customers, customers')
             /\ \A i \in 0..(Len(request'.input) - 1) :
                  request'.input[i + 1].email \in StoredEmails(customers)
                  => /\ \E e \in 1..Len(response'.errors) :
                          /\ response'.errors[e].index = i
                          /\ response'.errors[e].message =
                               BulkDuplicateMessage(request'.input[i + 1].email)
                     /\ \A r \in (Len(customers) + 1)..Len(customers') :
                          customers'[r].email # request'.input[i + 1].email]_vars

\* createCustomer was refused an email that is stored, although the phone
\* given with it is malformed too.
C2_Witness ==
    /\ request.op = "createCustomer"
    /\ request.input.email \in StoredEmails(customers)
    /\ request.input.phone = PhoneShort
    /\ response.success = FALSE
    /\ response.message = DuplicateEmailMessage

UniqueEmails(store) ==
    \A i, j \in 1..Len(store) : i # j => store[i].email # store[j].email

\* C3: no two customer rows have the same email (exact match); of two items
\* of one batch with the same email at most the first is created.
C3_EmailsUnique ==
    /\ UniqueEmails(customers)
    /\ request.op = "bulkCreateCustomers"
       => /\ UniqueEmails(response.customers)
          /\ \A i, j \in 0..(Len(request.input) - 1) :
                (i < j /\ request.input[i + 1].email = request.input[j + 1].email)
                => j \in ErrorIndexes(response.errors)
                   \/ ~FormatOk(request.input[i + 1])

\* A batch that held the same well-formed email twice: the first was
\* created, the second refused.
C3_Witness ==
    /\ request.op = "bulkCreateCustomers"
    /\ Len(request.input) = 2
    /\ request.input[1].email = request.input[2].email
    /\ FormatOk(request.input[1]) /\ FormatOk(request.input[2])
    /\ Len(response.customers) = 1
    /\ ErrorIndexes(response.errors) = {1}
    /\ Len(customers) = 1

\* C11 as stated: a failed createCustomer returns success=false and writes
\* no row; its message is the duplicate-email message only when the email
\* belongs to a stored customer, the invalid-phone message only when the
\* phone is malformed, and another message for a malformed email.
C11_MessagesDistinguishCause ==
    [][(request'.op = "createCustomer" /\ response'.success = FALSE)
        => /\ customers' = customers
           /\ response'.message = DuplicateEmailMessage
              => request'.input.email \in StoredEmails(customers)
           /\ response'.message = InvalidPhoneMessage
              => request'.input.phone \notin AcceptedPhones
           /\ request'.input.email \notin WellFormedEmails
              => response'.message \notin {DuplicateEmailMessage,
                                          InvalidPhoneMessage}]_vars

\* C12: createCustomer with a well-formed email that no stored customer
\* has, and a phone that is absent or in one of the two accepted formats,
\* adds exactly one row with the given name, email and phone, changes no
\* other row and returns success=true.
C12_ValidCustomerCreated ==
    [][(request'.op = "createCustomer"
          /\ FormatOk(request'.input)
          /\ request'.input.email \notin StoredEmails(customers))
        => /\ customers' = Append(customers,
                                  [name |-> request'.input.name,
                                   email |-> request'.input.email,
                                   phone |-> request'.input.phone])
           /\ response'.success = TRUE
           /\ response'.customer = Len(customers')
           /\ UNCHANGED <<products, orders, items>>]_vars

\* createCustomer has just stored a second customer, with a dashed phone,
\* beside one whose phone has the "+" format.
C12_Witness ==
    /\ request.op = "createCustomer"
    /\ response.success = TRUE
    /\ Len(customers) = 2
    /\ customers[1].phone = PhonePlus
    /\ customers[2] = [name |-> "Ann", email |-> EmailLower, phone |-> PhoneDashed]
    /\ request.input.phone = PhoneDashed

-----------------------------------------------------------------------------
(* Properties of the product and order mutations, under StoreSpec *)

RECURSIVE PriceSum(_, _)
PriceSum(prods, ids) ==
    IF ids = <<>> THEN 0 ELSE prods[Head(ids)].price + PriceSum(prods, Tail(ids))

\* C4: a successful createOrder adds an order whose total_amount is the sum,
\* over the ids of productIds, of the prices the products have at the call,
\* and no later call changes the total of a stored order.
C4_OrderTotal ==
    [][/\ KeepsRows(orders, orders')
       /\ (request'.op = "createOrder" /\ response'.success)
          => /\ Len(orders') = Len(orders) + 1
             /\ response'.order = Len(orders')
             /\ \A k \in 1..Len(request'.input.product_ids) :
                    request'.input.product_ids[k] \in 1..Len(products)
             /\ orders'[Len(orders')].total_amount =
                    PriceSum(products, request'.input.product_ids)]_vars

\* An order for the products priced 10.00 and 15.50 keeps its total of
\* 25.50 through a later replenishment of the stock.
C4_Witness ==
    /\ Len(orders) = 1
    /\ orders[1].total_amount = 2550
    /\ request.op = "updateLowStockProducts"
    /\ \E i \in 1..Len(products) : products[i].stock # created_stock[i]

C6_OrdersHaveProducts ==
    /\ \A o \in 1..Len(orders) :
          /\ orders[o].customer \in 1..Len(customers)
          /\ resolve_products(o) # {}
          /\ resolve_products(o) \subseteq 1..Len(products)
    /\ (request.op = "createOrder" /\ response.success)
       => resolve_products(response.order) =
            {request.input.product_ids[k] : k \in 1..Len(request.input.product_ids)}

C8_ReplenishReportsSuccess ==
    [][(request'.op = "updateLowStockProducts"
          /\ \E i \in 1..Len(products) : products'[i].stock > products[i].stock)
        => /\ response'.success = TRUE
           /\ response'.updated_count =
                Cardinality({i \in 1..Len(products) :
                                products'[i].stock > products[i].stock})]_vars

\* C13: createOrder, whether it succeeds or fails, changes no product row
\* (its stock least of all) and no customer row, so the products selected
\* by availableProducts and by the low-stock filter stay the same.
C13_OrderLeavesStock ==
    [][request'.op = "createOrder"
        => /\ products' = products
           /\ customers' = customers
           /\ {i \in 1..Len(products') : products'[i].stock > 0}
                = {i \in 1..Len(products) : products[i].stock > 0}
           /\ {i \in 1..Len(products') : products'[i].stock < 10}
                = {i \in 1..Len(products) : products[i].stock < 10}
           /\ resolve_available_products(products')
                = {i \in 1..Len(products) : products[i].stock > 0}]_vars

\* An order was created for a product that still has the stock of 9 it
\* was created with, while another product has none in stock.
C13_Witness ==
    /\ request.op = "createOrder"
    /\ response.success = TRUE
    /\ Len(orders) = 1
    /\ products[request.input.product_ids[1]].stock = 9
    /\ \E i \in 1..Len(products) : products[i].stock = 0

\* C10: every product row has price > 0 and stock >= 0, and createProduct
\* with price <= 0 or stock < 0 returns success=false and adds no row.
C10_ProductsPositive ==
    [][/\ \A i \in 1..Len(products') :
             products'[i].price > 0 /\ products'[i].stock >= 0
       /\ (request'.op = "createProduct"
             /\ (request'.input.price <= 0 \/ request'.input.stock < 0))
          => /\ response'.success = FALSE
             /\ response'.product = 0
             /\ products' = products]_vars

\* createProduct was refused a price of zero while the table holds a row.
C10_Witness ==
    /\ request.op = "createProduct"
    /\ request.input.price = 0
    /\ response.success = FALSE
    /\ Len(products) >= 1

-----------------------------------------------------------------------------
(* Properties of the products query, under QuerySpec *)

\* C14 as stated: the products query returns exactly the products whose
\* stock satisfies every stock bound that was given (stock >= stock_gte and
\* stock <= stock_lte), for every bound value including 0, and that have
\* stock < 10 when low_stock=true is given.
C14_StockFilterExact ==
    request.op = "products"
    => response.products =
         {i \in 1..Len(products) :
            /\ request.filters.stock_gte # <<>>
               => products[i].stock >= request.filters.stock_gte[1]
            /\ request.filters.stock_lte # <<>>
               => products[i].stock <= request.filters.stock_lte[1]
            /\ request.filters.low_stock = <<TRUE>> => products[i].stock < 10}

-----------------------------------------------------------------------------
(* Properties of invocations that run side by side, under ConcurrentSpec *)

BothSaved(i) == \A p \in Invocations : i \in saved[p]

AllIdle == \A p \in Invocations : pc[p] = "idle"

====
